---- MODULE Spec2Model ----
(***************************************************************************)
(* Model registry and drag-target binder of the product viewer, in its     *)
(* five variants:                                                          *)
(*   "app"  = src/js/app.js         (preload, then callbacks)              *)
(*   "p000" = src/unnamed/part_000  (async/await, loads awaited in turn)   *)
(*   "p001" = src/unnamed/part_001  (callbacks, upload without clear)      *)
(*   "p002" = src/unnamed/part_002  (callbacks, no upload)                 *)
(*   "p003" = src/unnamed/part_003  (callbacks, AR controllers)            *)
(*                                                                         *)
(* One step of the model is one task of the JavaScript event loop: a       *)
(* loader callback with every call it makes, a file-input change handler,  *)
(* or the settling of an awaited load together with the continuation of    *)
(* the async function that awaits it.                                      *)
(*                                                                         *)
(* Spec is the registry in a browser without WebXR.  SpecDrag adds a user  *)
(* who drags models, SpecReload a user who selects files once more,        *)
(* SpecAR the AR button, sessions, frames, touches and controllers in any  *)
(* browser, without uploads.                                               *)
(*                                                                         *)
(* Strings the program takes apart (file names) are sequences of tokens:   *)
(* "blade.glb" is <<"blade", ".glb">>, the model name "blade" is           *)
(* <<"blade">>.  A 3D object is an integer: the gltf.scene of load request *)
(* number i is i, the clone of the k-th preloaded model is -k.  The Map    *)
(* loadedModels is a function from names to objects, arrays of objects are *)
(* sets: no operation of the program depends on their order.               *)
(***************************************************************************)
EXTENDS Integers, Sequences, FiniteSets

VARIABLES
    variant,      \* which source file runs
    this,         \* the App instance: loadedModels, scene, draggableObjects,
                  \* dragControls, orbitControls; bindings counts the DragControls
                  \* constructed and not disposed, initCalls the calls of
                  \* initAfterPreload; overlay is the display style of the
                  \* loading overlay the constructor creates; isARMode,
                  \* selectedObject, reticle, controllers (their
                  \* userData.selectedObject), background (scene.background);
                  \* arButton, xrListeners, clickListener: what setupARButton
                  \* has created and registered; isDraggable (the objects with
                  \* userData.isDraggable), transforms (object -> its position,
                  \* rotation and scale as the loads and the pointer drags
                  \* leave them; what the AR handlers write is recorded in
                  \* xr.moved only); leaked (the bindings that were
                  \* overwritten without being disposed, each one the set of its
                  \* objects, and the objects they have selected); environment (part_000: the state of the
                  \* request of loadEnvironment)
    xr,           \* the WebXR device and the closures of the AR handlers:
                  \* navigator ('xr' in navigator, immersive-ar supported),
                  \* session, touches (fingers on the canvas), isMoving and
                  \* isRotating (setupARTouchControls), hitTestSourceRequested
                  \* and hitTestSource (animate), referenceSpace (the space
                  \* handed to renderer.xr.setReferenceSpace), promises (pending
                  \* session requests), moved (history: an AR handler has
                  \* written a model's transform)
    preload,      \* app.js: state of the five requests of preloadAssets
    initialized,  \* the setup methods have run (app.js: initAfterPreload)
    requests,     \* every GLTFLoader request issued by loadModel, in issue order
    batches,      \* every batch of loads: loadDefaultModels, then one per file selection
    nBlobs,       \* number of URL.createObjectURL calls so far
    revoked,      \* blob URLs passed to URL.revokeObjectURL
    errorLog,     \* console.error: request -> number of "Error loading model" lines
    nClears,      \* number of times the registry was cleared
    lastLoaded    \* history: name -> the request whose success callback ran last
                  \* for that name since the registry was last cleared

vars == << variant, this, xr, preload, initialized, requests, batches, nBlobs,
           revoked, errorLog, nClears, lastLoaded >>

----------------------------------------------------------------------------
(* Bounds *)

\* file selections in the upload input
MaxUploads == 1

\* uploaded files, over all selections
MaxBlobs == 2

----------------------------------------------------------------------------
(* Inputs *)

Variants == {"app", "p000", "p001", "p002", "p003"}

\* variants whose loadModel passes callbacks to GLTFLoader.load
CallbackVariants == {"app", "p001", "p002", "p003"}

\* variants with clearExistingModels
ClearVariants == {"app", "p003"}

\* variants with setupARButton
ARVariants == {"app", "p001", "p003"}

\* variants whose setupARButton registers sessionstart and sessionend listeners
SessionVariants == {"app", "p003"}

\* the browser: no navigator.xr; navigator.xr without immersive-ar; with it
Navigators == {"absent", "unsupported", "supported"}

\* part_003 setupControllers: renderer.xr.getController(0) and (1)
Controllers == {1, 2}

\* variants with a file input
UploadVariants == {"app", "p000", "p001", "p003"}

\* the names of the models array
DefaultModels == << <<"blade">>, <<"frame">>, <<"handguard">>, <<"handle">> >>

Range(s) == { s[i] : i \in DOMAIN s }

\* files a user may select, in the order the file dialog lists them
UploadFiles == << <<"blade", ".glb">>, <<"blade", ".gltf">>, <<"part", ".glb">> >>

\* the file lists of one selection: any of the files, in the dialog's order
FileLists ==
    { fl \in UNION { [1..n -> Range(UploadFiles)] : n \in 0..Len(UploadFiles) } :
          \E pos \in [DOMAIN fl -> DOMAIN UploadFiles] :
              /\ \A i \in DOMAIN fl : fl[i] = UploadFiles[pos[i]]
              /\ \A i, j \in DOMAIN fl : i < j => pos[i] < pos[j] }

----------------------------------------------------------------------------
(* Helpers *)

\* String.prototype.replace(tok, ''): drops the first occurrence only
Replace(s, tok) ==
    IF \E i \in 1..Len(s) : s[i] = tok
    THEN LET i == CHOOSE k \in 1..Len(s) :
                      s[k] = tok /\ \A j \in 1..(k-1) : s[j] # tok
         IN  SubSeq(s, 1, i-1) \o SubSeq(s, i+1, Len(s))
    ELSE s

\* the registry name of an uploaded file
FileModelName(v, file) ==
    IF v = "p000" THEN file
    ELSE Replace(Replace(file, ".glb"), ".gltf")

\* Map.prototype.set
MapSet(m, k, x) == [ n \in (DOMAIN m) \cup {k} |-> IF n = k THEN x ELSE m[n] ]

\* Array.from(map.values()), as a set
MapValues(m) == { m[n] : n \in DOMAIN m }

EmptyMap == << >>

----------------------------------------------------------------------------
(* The App instance *)

\* new DragControls(objects, camera, domElement).  shared: the binding was given
\* the array this.draggableObjects itself, so it sees later changes of it.
\* dragging: a pointer went down on one of its objects and is not up yet;
\* selected: that object (0: none).
DragControls(shared, objects) ==
    [ shared |-> shared, objects |-> objects, dragging |-> FALSE, selected |-> 0 ]

\* new OrbitControls(camera, domElement)
OrbitControls == [ enabled |-> TRUE ]

\* this.dragControls = new DragControls(...): one more binding listens on the canvas
newDragControls(t, shared, objects) ==
    [ t EXCEPT !.dragControls = DragControls(shared, objects),
               !.bindings = @ + 1 ]

\* a dispose that leaves the binding listening
disposeKeepsListening(t) == t

\* if (this.dragControls) this.dragControls.dispose(): the binding stops
\* listening; it dispatches no dragend for a drag in progress
dispose(t) ==
    IF t.bindings = 0 THEN t ELSE [ t EXCEPT !.bindings = @ - 1 ]

\* the objects the active binding this.dragControls can drag
dragObjects(t) ==
    IF t.dragControls.shared THEN t.draggableObjects ELSE t.dragControls.objects

\* part_000 setupControls: a new binding over [] replaces this.dragControls
\* and a new OrbitControls replaces this.orbitControls; nothing is disposed:
\* the binding that was this.dragControls goes on listening on the canvas,
\* with no listener for its events
setupControls(t) ==
    newDragControls(
        [ t EXCEPT !.orbitControls = OrbitControls,
                   !.leaked.bindings =
                       IF t.bindings = 0 THEN @ ELSE @ \cup {dragObjects(t)} ],
        FALSE, {})

\* setupInitialControls: the first binding is over this.draggableObjects itself
setupInitialControls(t) ==
    newDragControls([ t EXCEPT !.orbitControls = OrbitControls ], TRUE, {})

\* a setupARButton without the capability check
setupARButtonUnguarded(v, t, nav) ==
    [ t EXCEPT !.arButton = TRUE,
               !.xrListeners = (v \in SessionVariants),
               !.clickListener = (v = "p001"),
               !.controllers = IF v = "p003" THEN [ c \in Controllers |-> 0 ] ELSE @,
               !.reticle = IF v = "p003"
                           THEN [ visible |-> FALSE, matrix |-> "initial" ] ELSE @ ]

\* part_000 init: ARButton.createButton(renderer) is appended whatever the
\* browser; without navigator.xr it is a link to the WebXR site, not a button.
\* No session listener is registered.
createButton(t, nav) == [ t EXCEPT !.arButton = (nav # "absent") ]

\* setupARButton: everything is inside if ('xr' in navigator).  part_003 also
\* sets up the controllers and the reticle there, part_001 registers a click
\* listener on the button instead of session listeners.
setupARButton(v, t, nav) ==
    IF nav = "absent" \/ v \notin ARVariants THEN t
    ELSE [ t EXCEPT !.arButton = TRUE,
                    !.xrListeners = (v \in SessionVariants),
                    !.clickListener = (v = "p001"),
                    !.controllers =
                        IF v = "p003" THEN [ c \in Controllers |-> 0 ] ELSE @,
                    !.reticle =
                        IF v = "p003"
                        THEN [ visible |-> FALSE, matrix |-> "initial" ] ELSE @ ]

\* setupScene: this.scene.background = new THREE.Color(0xcccccc), in
\* part_000 new THREE.Color(0xffffff)
setupScene(v, t) ==
    [ t EXCEPT !.background = IF v = "p000" THEN "white" ELSE "grey" ]

\* part_000 loadEnvironment up to its await: the HDR request is pending
loadEnvironment(t) == [ t EXCEPT !.environment = "pending" ]

\* part_000 loadEnvironment after its await: the environment map becomes the
\* background, or the catch block logs the error
loadEnvironmentSettled(t, ok) ==
    IF ok THEN [ t EXCEPT !.environment = "loaded", !.background = "envMap" ]
    ELSE [ t EXCEPT !.environment = "failed" ]

\* the App instance when the constructor returns.  In app.js the constructor
\* only starts the preload: this.dragControls is not set before
\* initAfterPreload, which is modelled as a binding over nothing.
NewApp(v, nav) ==
    LET t == [ loadedModels     |-> EmptyMap,
               scene            |-> {},
               draggableObjects |-> {},
               dragControls     |-> DragControls(FALSE, {}),
               orbitControls    |-> OrbitControls,
               bindings         |-> 0,
               initCalls        |-> 0,
               overlay          |-> IF v = "app" THEN "flex" ELSE "absent",
               isARMode         |-> FALSE,
               selectedObject   |-> 0,
               background       |-> "unset",
               arButton         |-> FALSE,
               xrListeners      |-> FALSE,
               clickListener    |-> FALSE,
               controllers      |-> << >>,
               reticle          |-> [ visible |-> FALSE, matrix |-> "none" ],
               isDraggable      |-> {},
               transforms       |-> EmptyMap,
               leaked           |-> [ bindings |-> {}, selected |-> {} ],
               environment      |-> "none" ]
    IN  CASE v = "app"  -> t
          [] v = "p000" ->
                loadEnvironment(setupControls(setupScene(v, createButton(t, nav))))
          [] OTHER      -> setupARButton(v, setupInitialControls(setupScene(v, t)), nav)

\* a rebind that hands the new binding the array this.draggableObjects
updateDragControlsOverArray(v, t) ==
    [ t EXCEPT !.dragControls = DragControls(TRUE, {}) ]

updateDragControls(v, t) ==
    IF v = "p002"
    THEN newDragControls(
             dispose([ t EXCEPT !.draggableObjects = MapValues(t.loadedModels) ]),
             TRUE, {})
    ELSE newDragControls(dispose(t), FALSE, MapValues(t.loadedModels))

\* a clear that forgets scene.remove
clearExistingModelsKeepsScene(v, t) ==
    updateDragControls(v,
        [ t EXCEPT !.loadedModels = EmptyMap, !.draggableObjects = {} ])

clearExistingModels(v, t) ==
    updateDragControls(v,
        [ t EXCEPT !.scene = @ \ MapValues(t.loadedModels),
                   !.loadedModels = EmptyMap,
                   !.draggableObjects = {} ])

\* part_000 handleFileUpload, before its loop
handleFileUploadClear(t) ==
    [ t EXCEPT !.scene = @ \ MapValues(t.loadedModels),
               !.loadedModels = EmptyMap ]

\* a success callback that keeps the entry a name already has
loadModelOnLoadKeepsFirst(v, t, name, model) ==
    LET t1 == [ t EXCEPT !.draggableObjects =
                             IF v \in {"app", "p001", "p003"}
                             THEN @ \cup {model} ELSE @,
                         !.scene = @ \cup {model},
                         !.loadedModels = IF name \in DOMAIN @ THEN @
                                          ELSE MapSet(@, name, model) ]
    IN  IF v = "p000" THEN setupControls(t1) ELSE updateDragControls(v, t1)

\* a success callback that does not rebind the drag controls
loadModelOnLoadNoRebind(v, t, name, model) ==
    [ t EXCEPT !.draggableObjects =
                   IF v \in {"app", "p001", "p003"} THEN @ \cup {model} ELSE @,
               !.scene = @ \cup {model},
               !.loadedModels = MapSet(@, name, model) ]

\* the transform loadModel leaves the new model with: as the file has it;
\* part_002 centres the model on its bounding box; part_003 scales it by 5
\* and puts it at (0, 0, -2)
LoadTransform(v) ==
    CASE v = "p002" -> "centred"
      [] v = "p003" -> "front"
      [] OTHER -> "loaded"

\* a success callback that gives every model of the registry the transform of
\* the new one
loadModelOnLoadMovesAll(v, t, name, model) ==
    LET t1 == [ t EXCEPT !.draggableObjects =
                             IF v = "p002" THEN @ ELSE @ \cup {model},
                         !.isDraggable = IF v = "p002" THEN @ ELSE @ \cup {model},
                         !.scene = @ \cup {model},
                         !.loadedModels = MapSet(@, name, model) ]
    IN  updateDragControls(v,
            [ t1 EXCEPT !.transforms =
                  [ o \in (DOMAIN @) \cup {model} |->
                        IF o \in MapValues(t1.loadedModels)
                        THEN LoadTransform(v) ELSE @[o] ] ])

\* a success callback that does not flag the model as draggable
loadModelOnLoadNoFlag(v, t, name, model) ==
    updateDragControls(v,
        [ t EXCEPT !.draggableObjects = @ \cup {model},
                   !.transforms = MapSet(@, model, LoadTransform(v)),
                   !.scene = @ \cup {model},
                   !.loadedModels = MapSet(@, name, model) ])

\* js/app.js before initAfterPreload: this.scene is not set, so the success
\* callback throws at this.scene.add(model); the loader hands the exception to
\* the error callback
loadModelThrows(v, t) == v = "app" /\ t.initCalls = 0

\* the success callback of loadModel (part_000: the code after the await)
loadModelOnLoad(v, t, name, model) ==
    CASE loadModelThrows(v, t) ->
            [ t EXCEPT !.isDraggable = @ \cup {model},
                       !.draggableObjects = @ \cup {model},
                       !.transforms = MapSet(@, model, LoadTransform(v)) ]
      [] v \in {"app", "p001", "p003"} ->
            updateDragControls(v,
                [ t EXCEPT !.isDraggable = @ \cup {model},
                           !.draggableObjects = @ \cup {model},
                           !.transforms = MapSet(@, model, LoadTransform(v)),
                           !.scene = @ \cup {model},
                           !.loadedModels = MapSet(@, name, model) ])
      [] v = "p002" ->
            updateDragControls(v,
                [ t EXCEPT !.transforms = MapSet(@, model, LoadTransform(v)),
                           !.scene = @ \cup {model},
                           !.loadedModels = MapSet(@, name, model) ])
      [] OTHER ->
            LET t1 == [ t EXCEPT !.transforms = MapSet(@, model, LoadTransform(v)),
                                 !.scene = @ \cup {model},
                                 !.loadedModels = MapSet(@, name, model) ]
                t2 == newDragControls(dispose(t1), FALSE,
                                      MapValues(t1.loadedModels))
            IN  setupControls(t2)

\* an error callback that also drops the registry entry of the name
loadModelOnErrorDropsEntry(v, t, name) ==
    LET m == t.loadedModels
    IN  [ t EXCEPT !.loadedModels = [ n \in (DOMAIN m) \ {name} |-> m[n] ] ]

\* the error callback of loadModel (part_000: the catch block): it only logs
loadModelOnError(v, t, name) == t

\* console.error(`Error loading model ...`)
consoleError(log, r) ==
    MapSet(log, r, IF r \in DOMAIN log THEN log[r] + 1 ELSE 1)

\* the clone made by loadPreloadedModels of the k-th model of preloadAssets
Clone(k) == 0 - k

RECURSIVE loadPreloadedLoop(_, _, _)
loadPreloadedLoop(t, k, loaded) ==
    IF k > Len(DefaultModels) THEN t
    ELSE loadPreloadedLoop(
            IF k \in loaded
            THEN [ t EXCEPT !.isDraggable = @ \cup {Clone(k)},
                            !.draggableObjects = @ \cup {Clone(k)},
                            !.transforms = MapSet(@, Clone(k), "loaded"),
                            !.scene = @ \cup {Clone(k)},
                            !.loadedModels = MapSet(@, DefaultModels[k], Clone(k)) ]
            ELSE t,
            k + 1, loaded)

\* app.js loadPreloadedModels; loaded: the indexes of the entries of preloadedModels
loadPreloadedModels(v, t, loaded) ==
    updateDragControls(v, loadPreloadedLoop(t, 1, loaded))

\* app.js initAfterPreload
initAfterPreload(v, t, loaded, nav) ==
    loadPreloadedModels(v,
        setupARButton(v,
            setupInitialControls(setupScene(v, [ t EXCEPT !.initCalls = @ + 1 ])),
            nav),
        loaded)

\* the onLoad callback given to the LoadingManager in the constructor
loadingManagerOnLoad(v, t, loaded, nav) ==
    initAfterPreload(v, [ t EXCEPT !.overlay = "none" ], loaded, nav)

----------------------------------------------------------------------------
(* Load requests and batches *)

\* the assets of preloadAssets: 0 is the HDR map, k is the k-th GLB model
PreloadAssets == 0..Len(DefaultModels)

\* loader.load(url, ...) / loader.loadAsync(url) called by loadModel(url, name)
loadModel(url, name, batch, idx, epoch) ==
    [ name |-> name, url |-> url, status |-> "pending",
      batch |-> batch, idx |-> idx, epoch |-> epoch ]

AssetUrl(k) == << "asset", k >>
BlobUrl(k) == << "blob", k >>

\* the loadModel call of loadDefaultModels for models[k]
DefaultRequest(k, epoch) == loadModel(AssetUrl(k), DefaultModels[k], 1, k, epoch)

\* js/app.js loadDefaultModels: one loadModel call for every default model,
\* none awaited; b: the batch the calls make up
loadDefaultModels(b, epoch) ==
    [ k \in 1..Len(DefaultModels) |->
          loadModel(AssetUrl(k), DefaultModels[k], b, k, epoch) ]

\* the loadModel call of the upload handler for files[i]; blob: the URL it created
UploadRequest(v, files, i, blob, batch, epoch) ==
    loadModel(BlobUrl(blob), FileModelName(v, files[i]), batch, i, epoch)

Pending(reqs) == { r \in DOMAIN reqs : reqs[r].status = "pending" }

UploadBatches(bs) == { b \in DOMAIN bs : bs[b].kind = "upload" }

RECURSIVE SelectedFiles(_, _)
\* number of files selected so far, over all upload batches from b on
SelectedFiles(bs, b) ==
    IF b > Len(bs) THEN 0
    ELSE (IF bs[b].kind = "upload" THEN Len(bs[b].files) ELSE 0)
         + SelectedFiles(bs, b + 1)

----------------------------------------------------------------------------
(* Initial state: the module has been evaluated, `new App()` has returned and,
   except in app.js, app.loadDefaultModels() has been called *)

\* the device and the handlers' closures before any event
NewXR(nav) ==
    [ navigator |-> nav, session |-> "none", touches |-> 0,
      isMoving |-> FALSE, isRotating |-> FALSE,
      hitTestSourceRequested |-> FALSE, hitTestSource |-> "null",
      referenceSpace |-> "unset", promises |-> {}, moved |-> FALSE ]

\* vs: the source files that may run; navs: the browsers they may run in
InitIn(vs, navs) ==
    /\ variant \in vs
    /\ xr \in { NewXR(nav) : nav \in navs }
    /\ this = NewApp(variant, xr.navigator)
    /\ preload = [ a \in PreloadAssets |->
                      IF variant = "app" THEN "pending" ELSE "none" ]
    /\ initialized = (variant # "app")
    /\ requests =
          CASE variant = "app"  -> << >>
            [] variant = "p000" -> << DefaultRequest(1, 0) >>
            [] OTHER -> [ k \in 1..Len(DefaultModels) |-> DefaultRequest(k, 0) ]
    /\ batches =
          CASE variant = "app"  -> << >>
            [] variant = "p000" ->
                  << [ kind |-> "default", files |-> DefaultModels, issued |-> 1 ] >>
            [] OTHER ->
                  << [ kind |-> "default", files |-> DefaultModels,
                       issued |-> Len(DefaultModels) ] >>
    /\ nBlobs = 0
    /\ revoked = {}
    /\ errorLog = EmptyMap
    /\ nClears = 0
    /\ lastLoaded = EmptyMap

\* any of the five files, in a browser without WebXR
Init == InitIn(Variants, {"absent"})

----------------------------------------------------------------------------
(* app.js: one of the five requests of preloadAssets settles.  The loading
   manager calls initAfterPreload when the last of them has settled. *)

\* a manager that calls onLoad as soon as one item has ended
someItemEnded(p) == \E x \in DOMAIN p : p[x] # "pending"

\* the LoadingManager calls onLoad when every item it was told of has ended,
\* loaded or not; preloadAssets starts all five before any of them ends
allItemsEnded(p) == \A x \in DOMAIN p : p[x] # "pending"

PreloadSettle(a, ok) ==
    /\ variant = "app"
    /\ preload[a] = "pending"
    /\ LET p == [ preload EXCEPT ![a] = IF ok THEN "loaded" ELSE "failed" ]
           all == allItemsEnded(p)
           loaded == { k \in 1..Len(DefaultModels) : p[k] = "loaded" }
       IN  /\ preload' = p
           /\ initialized' = all
           /\ this' = IF all THEN loadingManagerOnLoad(variant, this, loaded,
                                                        xr.navigator)
                              ELSE this
    /\ UNCHANGED << variant, xr, requests, batches, nBlobs, revoked, errorLog,
                    nClears, lastLoaded >>

----------------------------------------------------------------------------
(* fileInput.onchange (part_000: the change listener and handleFileUpload up
   to its first await) *)

\* whether the handler clears the registry before it loads
ClearsOnUpload(v) == v \in {"app", "p000", "p003"}

\* the registry after the handler's clear
UploadClear(v, t) ==
    CASE v \in ClearVariants -> clearExistingModels(v, t)
      [] v = "p000" -> handleFileUploadClear(t)
      [] OTHER -> t

\* the requests the handler issues before it returns
UploadIssued(v, files) ==
    IF v = "p000" THEN (IF Len(files) > 0 THEN 1 ELSE 0) ELSE Len(files)

\* the handler, for a user who selects files at most maxUploads times
Change(files, maxUploads) ==
    /\ variant \in UploadVariants
    /\ initialized
    /\ Cardinality(UploadBatches(batches)) < maxUploads
    /\ SelectedFiles(batches, 1) + Len(files) <= MaxBlobs
    /\ LET b == Len(batches) + 1
           epoch == IF ClearsOnUpload(variant) THEN nClears + 1 ELSE nClears
           n == UploadIssued(variant, files)
       IN  /\ this' = UploadClear(variant, this)
           /\ nClears' = epoch
           /\ lastLoaded' = IF ClearsOnUpload(variant) THEN EmptyMap ELSE lastLoaded
           /\ requests' = requests \o
                 [ i \in 1..n |->
                     UploadRequest(variant, files, i, nBlobs + i, b, epoch) ]
           /\ nBlobs' = nBlobs + n
           /\ batches' = Append(batches,
                 [ kind |-> "upload", files |-> files, issued |-> n ])
    /\ UNCHANGED << variant, xr, preload, initialized, revoked, errorLog >>

OnChange(files) == Change(files, MaxUploads)

\* a selection by a user who selects files once more than MaxUploads times
OnChangeAgain(files) == Change(files, MaxUploads + 1)

----------------------------------------------------------------------------
(* A load request settles: GLTFLoader calls the success or the error callback
   (part_000: loadAsync resolves or rejects and the async functions awaiting it
   run on: loadModel to its end, then the loop of its caller up to the next
   await) *)

\* part_000 handleFileUpload: URL.revokeObjectURL(url) after the awaited load
RevokeAfterLoad(v, req, bs, rev) ==
    IF v = "p000" /\ bs[req.batch].kind = "upload"
    THEN rev \cup { req.url[2] }
    ELSE rev

\* a loop that a failed load ends, as if loadModel let the error through
LoopStopsOnFailure(v, req, bs, ok) ==
    ok /\ v = "p000" /\ req.idx < Len(bs[req.batch].files)

\* part_000: whether the loop that awaited req goes on to another model
LoopContinues(v, req, bs, ok) ==
    v = "p000" /\ req.idx < Len(bs[req.batch].files)

LoadSettle(r, ok) ==
    /\ r \in Pending(requests)
    /\ LET req == requests[r]
           more == LoopContinues(variant, req, batches, ok)
           next == IF batches[req.batch].kind = "upload"
                   THEN UploadRequest(variant, batches[req.batch].files,
                                      req.idx + 1, nBlobs + 1, req.batch, nClears)
                   ELSE DefaultRequest(req.idx + 1, nClears)
           settled == [ requests EXCEPT ![r].status =
                                            IF ok THEN "loaded" ELSE "failed" ]
       IN  /\ this' = IF ok THEN loadModelOnLoad(variant, this, req.name, r)
                            ELSE loadModelOnError(variant, this, req.name)
           /\ errorLog' = IF ok /\ ~loadModelThrows(variant, this)
                           THEN errorLog ELSE consoleError(errorLog, r)
           /\ lastLoaded' = IF ok /\ ~loadModelThrows(variant, this)
                             THEN MapSet(lastLoaded, req.name, r) ELSE lastLoaded
           /\ revoked' = RevokeAfterLoad(variant, req, batches, revoked)
           /\ requests' = IF more THEN Append(settled, next) ELSE settled
           /\ batches' = IF more
                         THEN [ batches EXCEPT ![req.batch].issued = @ + 1 ]
                         ELSE batches
           /\ nBlobs' = IF more /\ batches[req.batch].kind = "upload"
                        THEN nBlobs + 1 ELSE nBlobs
    /\ UNCHANGED << variant, xr, preload, initialized, nClears >>

----------------------------------------------------------------------------
(* Pointer events on the canvas, as the active binding this.dragControls
   dispatches them to the listeners of setupControlsEventListeners (part_000:
   setupControls).  A disposed binding listens no more: the pointerup that ends
   a drag it had started reaches no dragend listener. *)

\* the 'dragstart' listener, with the binding's own bookkeeping; o: the
\* object under the pointer
onDragStart(t, o) ==
    [ t EXCEPT !.dragControls.dragging = TRUE,
               !.dragControls.selected = o,
               !.orbitControls.enabled = FALSE ]

\* the 'dragend' listener, with the binding's own bookkeeping
onDragEnd(t) ==
    [ t EXCEPT !.dragControls.dragging = FALSE,
               !.dragControls.selected = 0,
               !.orbitControls.enabled = TRUE ]

\* objects a pointer's ray can pass through at once
MaxHits == 2

\* the rays of a pointer over the objects os: the objects they pass through,
\* the nearest first
Rays(os) ==
    { ray \in UNION { [1..n -> os] : n \in 1..MaxHits } :
          \A i, j \in DOMAIN ray : i # j => ray[i] # ray[j] }

\* the object a binding over objs selects at a pointerdown with this ray: the
\* nearest of its own objects on the ray (0: none)
FirstHit(ray, objs) ==
    IF \E i \in DOMAIN ray : ray[i] \in objs
    THEN ray[CHOOSE i \in DOMAIN ray :
                 /\ ray[i] \in objs
                 /\ \A j \in DOMAIN ray : ray[j] \in objs => i <= j]
    ELSE 0

\* pointerdown with this ray: every binding that listens selects the nearest
\* of its own objects; this.dragControls dispatches 'dragstart' to its
\* listener, the leaked bindings have no listener
DragStart(ray) ==
    /\ initialized
    /\ this.bindings > 0
    /\ ~this.dragControls.dragging
    /\ this.leaked.selected = {}
    /\ LET o  == FirstHit(ray, dragObjects(this))
           ls == { FirstHit(ray, b) : b \in this.leaked.bindings } \ {0}
       IN  /\ o # 0 \/ ls # {}
           /\ this' = [ (IF o # 0 THEN onDragStart(this, o) ELSE this)
                           EXCEPT !.leaked.selected = ls ]
    /\ UNCHANGED << variant, xr, preload, initialized, requests, batches, nBlobs,
                    revoked, errorLog, nClears, lastLoaded >>

\* pointermove while bindings drag: each moves the object it has selected
\* (part_000's 'drag' listener is on a binding over []: it never runs)
Drag ==
    /\ this.dragControls.dragging \/ this.leaked.selected # {}
    /\ LET sel == this.leaked.selected \cup
                      (IF this.dragControls.dragging
                       THEN {this.dragControls.selected} ELSE {})
       IN  this' = [ this EXCEPT !.transforms =
                        [ x \in DOMAIN @ |-> IF x \in sel THEN "dragged" ELSE @[x] ] ]
    /\ UNCHANGED << variant, xr, preload, initialized, requests, batches, nBlobs,
                    revoked, errorLog, nClears, lastLoaded >>

\* pointerup or pointercancel while bindings drag
DragEnd ==
    /\ this.dragControls.dragging \/ this.leaked.selected # {}
    /\ this' = [ (IF this.dragControls.dragging THEN onDragEnd(this) ELSE this)
                     EXCEPT !.leaked.selected = {} ]
    /\ UNCHANGED << variant, xr, preload, initialized, requests, batches, nBlobs,
                    revoked, errorLog, nClears, lastLoaded >>

----------------------------------------------------------------------------
(* WebXR: the AR button, the session, the animation loop and the touch and
   controller handlers.  The ARButton of three.js requests an immersive-ar
   session when it is clicked while none runs; renderer.xr dispatches
   sessionstart when the session has been granted and set up, sessionend when it
   has ended, whoever ended it.  A request made on a session is rejected when
   the session ends. *)

\* fingers the touch handlers tell apart (event.touches.length === 2)
MaxTouches == 2

\* a sessionend listener that also hides the reticle
onSessionEndHidesReticle(v, t) ==
    IF t.xrListeners
    THEN [ t EXCEPT !.isARMode = FALSE, !.background = "grey",
                    !.reticle = [ visible |-> FALSE, matrix |-> "initial" ] ]
    ELSE t

\* a sessionend listener that restores the background only
onSessionEndKeepsMode(v, t) ==
    IF t.xrListeners THEN [ t EXCEPT !.background = "grey" ] ELSE t

\* the click listener part_001 adds to the AR button
arButtonOnClick(t) ==
    IF t.clickListener THEN [ t EXCEPT !.isARMode = ~@ ] ELSE t

\* a sessionstart listener that leaves the background as it is
onSessionStartKeepsBackground(v, t) ==
    IF t.xrListeners THEN [ t EXCEPT !.isARMode = TRUE ] ELSE t

\* the 'sessionstart' listener of setupARButton
onSessionStart(v, t) ==
    IF t.xrListeners
    THEN [ t EXCEPT !.isARMode = TRUE, !.background = "null" ]
    ELSE t

\* the 'sessionend' listener of setupARButton
onSessionEnd(v, t) ==
    IF t.xrListeners
    THEN [ t EXCEPT !.isARMode = FALSE, !.background = "grey" ]
    ELSE t

\* a click on the AR button
ARButtonClick ==
    /\ initialized
    /\ this.arButton
    /\ this' = arButtonOnClick(this)
    /\ xr' = IF xr.navigator = "supported" /\ xr.session = "none"
             THEN [ xr EXCEPT !.session = "requested" ]
             ELSE xr
    /\ UNCHANGED << variant, preload, initialized, requests, batches, nBlobs,
                    revoked, errorLog, nClears, lastLoaded >>

\* the requested session starts: renderer.xr dispatches 'sessionstart'.
\* part_003's listener also puts every model in front of the user.
SessionStart ==
    /\ xr.session = "requested"
    /\ this' = onSessionStart(variant, this)
    /\ xr' = [ xr EXCEPT !.session = "active",
                         !.moved = @ \/ ( /\ variant = "p003"
                                          /\ this.xrListeners
                                          /\ this.loadedModels # EmptyMap ) ]
    /\ UNCHANGED << variant, preload, initialized, requests, batches, nBlobs,
                    revoked, errorLog, nClears, lastLoaded >>

\* the request is rejected (the user refuses, the device is busy)
SessionDenied ==
    /\ xr.session = "requested"
    /\ xr' = [ xr EXCEPT !.session = "none" ]
    /\ UNCHANGED << variant, this, preload, initialized, requests, batches,
                    nBlobs, revoked, errorLog, nClears, lastLoaded >>

\* the session ends, by a click on the button or by the system: renderer.xr
\* dispatches 'sessionend'; pending requests on the session are rejected and a
\* hit-test source obtained from it is of no use to a later session
SessionEnd ==
    /\ xr.session = "active"
    /\ this' = onSessionEnd(variant, this)
    /\ xr' = [ xr EXCEPT !.session = "none",
                         !.promises = {},
                         !.hitTestSource = IF @ = "null" THEN @ ELSE "stale" ]
    /\ UNCHANGED << variant, preload, initialized, requests, batches, nBlobs,
                    revoked, errorLog, nClears, lastLoaded >>


\* requests a frame may have pending on its session
Promises == {"viewer", "hitTestSource", "local"}

\* the callback of renderer.setAnimationLoop.  Only part_003's callback changes
\* state, when isARMode holds and it is given a frame (a session is active):
\* it requests the hit-test source and the local reference space once, polls
\* the hit-test source it has (hit: whether a surface was hit) and drags what
\* the controllers have selected.  getHitTestResults throws for a source of
\* another session, which ends the callback.
Frame(hit) ==
    /\ initialized
    /\ LET inAR == variant = "p003" /\ this.isARMode /\ xr.session = "active"
           x1 == IF xr.hitTestSourceRequested THEN xr
                 ELSE [ xr EXCEPT !.promises = @ \cup {"viewer", "local"},
                                  !.hitTestSourceRequested = TRUE ]
           polled == IF xr.hitTestSource = "current"
                     THEN [ this EXCEPT !.reticle =
                                IF hit THEN [ visible |-> TRUE, matrix |-> "pose" ]
                                ELSE [ @ EXCEPT !.visible = FALSE ] ]
                     ELSE this
           dragged == \E c \in DOMAIN this.controllers : this.controllers[c] # 0
       IN  CASE ~inAR -> UNCHANGED << this, xr >>
             [] inAR /\ xr.hitTestSource = "stale" ->
                    this' = this /\ xr' = x1
             [] OTHER ->
                    this' = polled /\ xr' = [ x1 EXCEPT !.moved = @ \/ dragged ]
    /\ UNCHANGED << variant, preload, initialized, requests, batches, nBlobs,
                    revoked, errorLog, nClears, lastLoaded >>

\* a request of part_003's frame callback is fulfilled and its then-callback
\* runs: for the viewer space it requests the hit-test source, for the
\* hit-test source it sets hitTestSource, for the local space it calls
\* renderer.xr.setReferenceSpace
PromiseThen(p) ==
    /\ p \in xr.promises
    /\ xr.session = "active"
    /\ xr' = CASE p = "viewer" ->
                    [ xr EXCEPT !.promises = (@ \ {p}) \cup {"hitTestSource"} ]
               [] p = "hitTestSource" ->
                    [ xr EXCEPT !.promises = @ \ {p}, !.hitTestSource = "current" ]
               [] OTHER ->
                    [ xr EXCEPT !.promises = @ \ {p}, !.referenceSpace = "local" ]
    /\ UNCHANGED << variant, this, preload, initialized, requests, batches,
                    nBlobs, revoked, errorLog, nClears, lastLoaded >>

\* variants with touch handlers on the canvas
TouchVariants == {"app", "p003"}

\* what the ray of js/app.js's touchstart can hit: one of draggableObjects or
\* nothing (0)
TouchTargets(v, t) == IF v = "app" THEN t.draggableObjects \cup {0} ELSE {0}

\* the 'touchmove' listener: whether it writes the transform of a model
onTouchMove(v, t, x) ==
    /\ t.isARMode
    /\ IF v = "app" THEN t.selectedObject # 0
       ELSE /\ t.loadedModels # EmptyMap
            /\ \/ x.isMoving /\ x.touches = 1
               \/ x.isRotating /\ x.touches = MaxTouches

\* a finger goes down on the canvas: the 'touchstart' listener
TouchStart(target) ==
    /\ variant \in TouchVariants
    /\ initialized
    /\ xr.touches < MaxTouches
    /\ target \in TouchTargets(variant, this)
    /\ this' = IF variant = "app" /\ this.isARMode /\ target # 0
               THEN [ this EXCEPT !.selectedObject = target ]
               ELSE this
    /\ xr' = IF variant = "p003" /\ this.isARMode
             THEN [ xr EXCEPT !.touches = @ + 1,
                              !.isMoving = (xr.touches + 1 = 1),
                              !.isRotating = @ \/ (xr.touches + 1 = MaxTouches) ]
             ELSE [ xr EXCEPT !.touches = @ + 1 ]
    /\ UNCHANGED << variant, preload, initialized, requests, batches, nBlobs,
                    revoked, errorLog, nClears, lastLoaded >>

\* a finger moves on the canvas
TouchMove ==
    /\ variant \in TouchVariants
    /\ initialized
    /\ xr.touches > 0
    /\ xr' = [ xr EXCEPT !.moved = @ \/ onTouchMove(variant, this, xr) ]
    /\ UNCHANGED << variant, this, preload, initialized, requests, batches,
                    nBlobs, revoked, errorLog, nClears, lastLoaded >>

\* a finger leaves the canvas: the 'touchend' listener
TouchEnd ==
    /\ variant \in TouchVariants
    /\ initialized
    /\ xr.touches > 0
    /\ this' = IF variant = "app" /\ this.isARMode
               THEN [ this EXCEPT !.selectedObject = 0 ]
               ELSE this
    /\ xr' = IF variant = "p003"
             THEN [ xr EXCEPT !.touches = @ - 1,
                              !.isMoving = FALSE, !.isRotating = FALSE ]
             ELSE [ xr EXCEPT !.touches = @ - 1 ]
    /\ UNCHANGED << variant, preload, initialized, requests, batches, nBlobs,
                    revoked, errorLog, nClears, lastLoaded >>

\* part_003 onControllerSelectStart; target: the registry model the
\* controller's ray hits, or nothing (0)
ControllerSelectStart(c, target) ==
    /\ c \in DOMAIN this.controllers
    /\ xr.session = "active"
    /\ target \in MapValues(this.loadedModels) \cup {0}
    /\ this' = IF target = 0 THEN this
               ELSE [ this EXCEPT !.selectedObject = target,
                                  !.controllers[c] = target ]
    /\ xr' = [ xr EXCEPT !.moved = @ \/ ( /\ this.reticle.visible
                                          /\ this.loadedModels # EmptyMap ) ]
    /\ UNCHANGED << variant, preload, initialized, requests, batches, nBlobs,
                    revoked, errorLog, nClears, lastLoaded >>

\* part_003 onControllerSelectEnd
ControllerSelectEnd(c) ==
    /\ c \in DOMAIN this.controllers
    /\ xr.session = "active"
    /\ this' = [ this EXCEPT !.controllers[c] = 0 ]
    /\ UNCHANGED << variant, xr, preload, initialized, requests, batches, nBlobs,
                    revoked, errorLog, nClears, lastLoaded >>

----------------------------------------------------------------------------

\* part_000: the HDR request of loadEnvironment is fulfilled or rejected
EnvironmentSettle(ok) ==
    /\ this.environment = "pending"
    /\ this' = loadEnvironmentSettled(this, ok)
    /\ UNCHANGED << variant, xr, preload, initialized, requests, batches, nBlobs,
                    revoked, errorLog, nClears, lastLoaded >>

\* calls of app.loadDefaultModels() the page's other scripts may make
MaxDefaultCalls == 1

\* js/app.js: app.loadDefaultModels() is called on the exported instance, at
\* any time after the module was evaluated.  No code of the repository makes
\* this call.
LoadDefaultModels ==
    /\ variant = "app"
    /\ Cardinality({ b \in DOMAIN batches : batches[b].kind = "default" })
           < MaxDefaultCalls
    /\ requests' = requests \o loadDefaultModels(Len(batches) + 1, nClears)
    /\ batches' = Append(batches, [ kind |-> "default", files |-> DefaultModels,
                                    issued |-> Len(DefaultModels) ])
    /\ UNCHANGED << variant, this, xr, preload, initialized, nBlobs, revoked,
                    errorLog, nClears, lastLoaded >>

Next ==
    \/ \E ok \in BOOLEAN : EnvironmentSettle(ok)
    \/ \E a \in PreloadAssets, ok \in BOOLEAN : PreloadSettle(a, ok)
    \/ \E files \in FileLists : OnChange(files)
    \/ \E r \in DOMAIN requests, ok \in BOOLEAN : LoadSettle(r, ok)

Spec == Init /\ [][Next]_vars

\* the same program with a user who also drags models: every binding on the
\* canvas raycasts its own objects, in the scene or removed from it.
\* part_000 awaits each load of a selection; its selections are of at most
\* one file here.
NextDrag ==
    \/ \E ok \in BOOLEAN : EnvironmentSettle(ok)
    \/ \E a \in PreloadAssets, ok \in BOOLEAN : PreloadSettle(a, ok)
    \/ \E files \in FileLists :
           (variant = "p000" => Len(files) <= 1) /\ OnChange(files)
    \/ \E r \in DOMAIN requests, ok \in BOOLEAN : LoadSettle(r, ok)
    \/ \E ray \in Rays(DOMAIN this.transforms) : DragStart(ray)
    \/ Drag
    \/ DragEnd

SpecDrag == Init /\ [][NextDrag]_vars

\* the variants that rebind through updateDragControls: their environment map
\* lights the scene and is never made its background
InitCallback == InitIn(CallbackVariants, {"absent"})

NextCallback ==
    \/ \E a \in PreloadAssets, ok \in BOOLEAN : PreloadSettle(a, ok)
    \/ \E files \in FileLists : OnChange(files)
    \/ \E r \in DOMAIN requests, ok \in BOOLEAN : LoadSettle(r, ok)

SpecCallback == InitCallback /\ [][NextCallback]_vars

\* part_000 in any browser: its environment map, its default models, the
\* drags of its leaked bindings and its AR button, which no session listener
\* goes with
Init000 == InitIn({"p000"}, Navigators)

Next000 ==
    \/ \E ok \in BOOLEAN : EnvironmentSettle(ok)
    \/ \E r \in DOMAIN requests, ok \in BOOLEAN : LoadSettle(r, ok)
    \/ \E ray \in Rays(DOMAIN this.transforms) : DragStart(ray)
    \/ Drag
    \/ DragEnd
    \/ ARButtonClick
    \/ SessionStart
    \/ SessionDenied
    \/ SessionEnd

Spec000 == Init000 /\ [][Next000]_vars

\* js/app.js with a script that calls app.loadDefaultModels()
InitDynamic == InitIn({"app"}, {"absent"})

NextDynamic ==
    \/ \E a \in PreloadAssets, ok \in BOOLEAN : PreloadSettle(a, ok)
    \/ \E r \in DOMAIN requests, ok \in BOOLEAN : LoadSettle(r, ok)
    \/ LoadDefaultModels

SpecDynamic == InitDynamic /\ [][NextDynamic]_vars

\* part_002 and part_003 with a user who drags models about and selects at
\* most one file at a time, every load succeeding.  One binding listens in
\* these variants, so the nearest object under the pointer decides the drag.
InitTransform == InitIn({"p002", "p003"}, {"absent"})

NextTransform ==
    \/ \E files \in FileLists : Len(files) <= 1 /\ OnChange(files)
    \/ \E r \in DOMAIN requests : LoadSettle(r, TRUE)
    \/ \E o \in this.scene : DragStart(<< o >>)
    \/ Drag
    \/ DragEnd

SpecTransform == InitTransform /\ [][NextTransform]_vars

\* js/app.js and part_003, the variants with clearExistingModels, with a user
\* who selects files a second time
InitReload == InitIn(ClearVariants, {"absent"})

NextReload ==
    \/ \E a \in PreloadAssets, ok \in BOOLEAN : PreloadSettle(a, ok)
    \/ \E files \in FileLists : OnChangeAgain(files)
    \/ \E r \in DOMAIN requests, ok \in BOOLEAN : LoadSettle(r, ok)

SpecReload == InitReload /\ [][NextReload]_vars

\* the variants with an AR button, in any browser, with a user who uses AR and
\* touches the canvas but uploads nothing
InitAR == InitIn(ARVariants, Navigators)

NextAR ==
    \/ \E a \in PreloadAssets, ok \in BOOLEAN : PreloadSettle(a, ok)
    \/ \E r \in DOMAIN requests, ok \in BOOLEAN : LoadSettle(r, ok)
    \/ ARButtonClick
    \/ SessionStart
    \/ SessionDenied
    \/ SessionEnd
    \/ \E hit \in BOOLEAN : Frame(hit)
    \/ \E p \in Promises : PromiseThen(p)
    \/ \E target \in this.draggableObjects \cup {0} : TouchStart(target)
    \/ TouchMove
    \/ TouchEnd
    \/ \E c \in Controllers, target \in MapValues(this.loadedModels) \cup {0} :
           ControllerSelectStart(c, target)
    \/ \E c \in Controllers : ControllerSelectEnd(c)

SpecAR == InitAR /\ [][NextAR]_vars

\* part_003 on a device with WebXR: the user selects a file (at most one at
\* a time) and loads complete, every one succeeding, while sessions start,
\* are denied or end, the hit-test requests are answered and the controllers
\* select models
InitSelect == InitIn({"p003"}, {"supported"})

NextSelect ==
    \/ \E files \in FileLists : Len(files) <= 1 /\ OnChange(files)
    \/ \E r \in DOMAIN requests : LoadSettle(r, TRUE)
    \/ ARButtonClick
    \/ SessionStart
    \/ SessionDenied
    \/ SessionEnd
    \/ \E hit \in BOOLEAN : Frame(hit)
    \/ \E p \in Promises : PromiseThen(p)
    \/ \E c \in Controllers, target \in MapValues(this.loadedModels) \cup {0} :
            ControllerSelectStart(c, target)
    \/ \E c \in Controllers : ControllerSelectEnd(c)

SpecSelect == InitSelect /\ [][NextSelect]_vars

----------------------------------------------------------------------------
(* Properties *)

Registry == this.loadedModels

RegistryValues == MapValues(this.loadedModels)

Loaded == { r \in DOMAIN requests : requests[r].status = "loaded" }

Failed == { r \in DOMAIN requests : requests[r].status = "failed" }

\* no load is in flight and no loop has a load left to issue
Settled ==
    /\ Pending(requests) = {}
    /\ \A b \in DOMAIN batches : batches[b].issued = Len(batches[b].files)

\* C1: in the variants that rebind through updateDragControls, between events
\* the objects of the active drag binding are exactly the values of the
\* loadedModels registry.
C1_BindingIsRegistry ==
    (variant \in CallbackVariants /\ initialized)
        => dragObjects(this) = RegistryValues

\* a load landed after a clear or over a name already taken: an object that was
\* loaded is no longer a registry value, and the registry is not empty
C1_Witness ==
    /\ variant \in CallbackVariants
    /\ initialized
    /\ RegistryValues # {}
    /\ \E r \in Loaded : r \notin RegistryValues /\ r \in this.draggableObjects

\* C2: in part_000 the objects of the active drag binding are exactly the
\* values of loadedModels, after every successful loadModel and after
\* handleFileUpload has cleared the registry.
C2_BindingIsRegistry000 ==
    variant = "p000" => dragObjects(this) = RegistryValues

\* C3: right after clearExistingModels the registry is empty, draggableObjects
\* is empty, the active binding is over nothing and no object that was a
\* registry value is still in the scene.
C3_ClearEmpties ==
    [][ (variant \in ClearVariants /\ nClears' # nClears)
          => /\ this'.loadedModels = EmptyMap
             /\ this'.draggableObjects = {}
             /\ dragObjects(this') = {}
             /\ this'.dragControls.objects = {}
             /\ RegistryValues \cap this'.scene = {} ]_vars

\* a clear has removed a loaded model from the scene
C3_Witness ==
    /\ variant \in ClearVariants
    /\ nClears > 0
    /\ this.loadedModels = EmptyMap
    /\ \E r \in Loaded : r \notin this.scene

\* the requests for name n issued since the registry was last cleared
CallsFor(n) ==
    { r \in DOMAIN requests : requests[r].name = n /\ requests[r].epoch = nClears }

\* every request ever issued for name n
AllCallsFor(n) == { r \in DOMAIN requests : requests[r].name = n }

Max(S) == CHOOSE x \in S : \A y \in S : y <= x

\* C4 as stated: when two loads of one name, issued one after the other with
\* no clear since, have both succeeded, the registry maps the name to the
\* object of the one issued second.
C4_SecondIssuedWins ==
    \A r \in Loaded :
        LET n == requests[r].name
        IN  ( /\ variant \in ClearVariants
              /\ Cardinality(AllCallsFor(n)) = 2
              /\ AllCallsFor(n) = CallsFor(n)
              /\ AllCallsFor(n) \subseteq Loaded )
            => /\ n \in DOMAIN Registry
               /\ Registry[n] = Max(AllCallsFor(n))

\* C4 as amended: the registry holds one entry for a name loaded since the last
\* clear, and it maps to the object of the load whose success callback ran last.
C4_LastCompletedWins ==
    \A n \in DOMAIN lastLoaded :
        /\ n \in DOMAIN Registry
        /\ Registry[n] = lastLoaded[n]

\* two loads of one name have both succeeded, the one issued first completed
\* last, and the registry maps the name to its object
C4_Witness ==
    \E a, b \in Loaded :
        /\ variant \in ClearVariants
        /\ a < b
        /\ requests[a].name = requests[b].name
        /\ requests[a].epoch = nClears
        /\ requests[b].epoch = nClears
        /\ lastLoaded[requests[a].name] = a
        /\ Registry[requests[a].name] = a

\* every request was issued after the last clear, with a name of its own, and
\* has succeeded
DistinctLoadsDone ==
    /\ requests # << >>
    /\ \A r \in DOMAIN requests :
          /\ requests[r].status = "loaded"
          /\ requests[r].epoch = nClears
    /\ \A r, q \in DOMAIN requests : r # q => requests[r].name # requests[q].name

\* C5: N loads with distinct names issued on an empty registry with no clear
\* in between, all successful, in the callback variants: the registry ends
\* with N entries, one per name, and the active binding holds those N objects.
C5_DistinctNames ==
    (variant \in CallbackVariants /\ DistinctLoadsDone)
        => /\ DOMAIN Registry = { requests[r].name : r \in DOMAIN requests }
           /\ Cardinality(DOMAIN Registry) = Len(requests)
           /\ \A r \in DOMAIN requests : Registry[requests[r].name] = r
           /\ dragObjects(this) = DOMAIN requests

\* several loads with distinct names have all succeeded
C5_Witness ==
    /\ variant \in CallbackVariants
    /\ DistinctLoadsDone
    /\ Len(requests) >= 2

\* the step is the error callback of request r
FailStep(r) == r \in Pending(requests) /\ requests'[r].status = "failed"

\* the step is the success callback of request r
LoadStep(r) == r \in Pending(requests) /\ requests'[r].status = "loaded"

\* the requests the step issues
Issued == (DOMAIN requests') \ (DOMAIN requests)

\* C6: a failed load leaves the registry, the scene, draggableObjects and the
\* drag binding as they were, is logged exactly once, and its URL is never
\* requested again.
C6_FailureChangesNothing ==
    [][ /\ \A r \in DOMAIN requests :
              FailStep(r)
                  => /\ this' = this
                     /\ r \notin DOMAIN errorLog
                     /\ errorLog' = MapSet(errorLog, r, 1)
                     /\ \A q \in Issued : requests'[q].url # requests[r].url
        /\ (\A r \in DOMAIN requests : ~FailStep(r)) => errorLog' = errorLog
        /\ \A q \in Issued : \A r \in Failed : requests'[q].url # requests[r].url
      ]_vars

\* a load has failed while the registry holds a model of the same name
C6_Witness ==
    \E r \in Failed :
        /\ errorLog[r] = 1
        /\ requests[r].name \in DOMAIN Registry

\* C7: a failed load does not stop the other loads of its batch: the load of
\* the next model of the batch has been issued when the failure has been
\* handled, a load that succeeds enters the registry, and neither changes the
\* entries of other names.
C7_FailureIsLocal ==
    [][ \A r \in DOMAIN requests :
          LET req == requests[r]
              others == (DOMAIN Registry) \ {req.name}
          IN  /\ FailStep(r)
                  => /\ this'.loadedModels = this.loadedModels
                     /\ req.idx < Len(batches[req.batch].files)
                          => \E q \in DOMAIN requests' :
                                /\ requests'[q].batch = req.batch
                                /\ requests'[q].idx = req.idx + 1
              /\ LoadStep(r)
                  => /\ req.name \in DOMAIN this'.loadedModels
                     /\ this'.loadedModels[req.name] = r
                     /\ \A n \in others :
                           /\ n \in DOMAIN this'.loadedModels
                           /\ this'.loadedModels[n] = Registry[n]
      ]_vars

\* in part_000 a load of a batch failed and a later load of the same batch
\* succeeded and is in the registry next to a model loaded before the failure
C7_Witness ==
    /\ variant = "p000"
    /\ \E p, r, q \in DOMAIN requests :
          /\ requests[p].batch = requests[r].batch
          /\ requests[r].batch = requests[q].batch
          /\ requests[p].idx < requests[r].idx
          /\ requests[r].idx < requests[q].idx
          /\ r \in Failed
          /\ {p, q} \subseteq Loaded
          /\ {p, q} \subseteq RegistryValues

\* the step is a file selection in the upload input
ChangeStep == Len(batches') > Len(batches)

\* C8: every file selection first clears the registry and the scene of the
\* models it held, and issues its loads only then.
C8_ClearThenLoad ==
    [][ ChangeStep
          => /\ RegistryValues \cap this'.scene = {}
             /\ this'.loadedModels = EmptyMap
             /\ \A q \in Issued : requests'[q].epoch = nClears'
      ]_vars

\* C9: once an upload batch has been started by a handler that clears and
\* every load has settled, the registry holds only models of that batch.
C9_OnlyLatestBatch ==
    ( /\ ClearsOnUpload(variant)
      /\ UploadBatches(batches) # {}
      /\ batches[Len(batches)].files # << >>
      /\ Settled )
        => \A x \in RegistryValues :
              /\ x \in DOMAIN requests
              /\ requests[x].batch = Len(batches)

BlobUrls == 1..nBlobs

\* the request that loads blob URL k
UserOf(k) == { r \in DOMAIN requests : requests[r].url = BlobUrl(k) }

\* C10: a blob URL is revoked only when the load that uses it has settled, and
\* every blob URL has been revoked once all loads have settled.
C10_BlobsRevoked ==
    /\ \A k \in revoked : UserOf(k) \cap Pending(requests) = {}
    /\ Settled => revoked = BlobUrls

\* C11: whenever no drag is in progress on the active binding, the orbit
\* controls are enabled, also after a rebind between dragstart and dragend
C11_OrbitFollowsDrag ==
    (initialized /\ ~this.dragControls.dragging) => this.orbitControls.enabled

\* C12: clearExistingModels is idempotent.  Whenever the change handler calls
\* it, a second call right after it would leave the App instance exactly as
\* the first left it (empty registry, empty draggableObjects, empty binding,
\* same scene), and a call on an empty registry changes neither the registry
\* nor the scene
C12_ClearIdempotent ==
    [][ (variant \in ClearVariants /\ nClears' = nClears + 1) =>
            /\ this' = clearExistingModels(variant, this)
            /\ clearExistingModels(variant, this') = this'
            /\ this'.loadedModels = EmptyMap
            /\ this'.draggableObjects = {}
            /\ dragObjects(this') = {}
            /\ (this.loadedModels = EmptyMap =>
                    /\ this'.loadedModels = this.loadedModels
                    /\ this'.scene = this.scene) ]_vars

\* a clear has run on a registry that held models, some of them still shown
C12_Witness ==
    /\ variant \in ClearVariants
    /\ nClears = 1
    /\ \E r \in Loaded : requests[r].epoch = 0
    /\ this.loadedModels = EmptyMap
    /\ this.bindings = 1

\* C15: every rebind disposes the binding it replaces, so at most one
\* DragControls binding is constructed and not disposed
C15_OneLiveBinding == this.bindings <= 1

\* C16: after clearExistingModels no object that an earlier successful load
\* added to the scene is still in the scene, also when two of these loads
\* used the same name
C16_ClearRemovesAllLoaded ==
    [][ (variant \in ClearVariants /\ nClears' = nClears + 1) =>
            this'.scene \cap Loaded = {} ]_vars

\* C17: js/app.js calls initAfterPreload at most once and not before all five
\* preload requests have settled, and the loading overlay is visible exactly
\* until that call
C17_InitOnceAfterPreload ==
    variant = "app" =>
        /\ this.initCalls <= 1
        /\ (this.initCalls = 1 => \A a \in PreloadAssets : preload[a] # "pending")
        /\ (this.overlay = "flex" <=> this.initCalls = 0)
        /\ this.overlay \in {"flex", "none"}

\* initAfterPreload has run, after a preload that failed
C17_Witness ==
    /\ variant = "app"
    /\ this.initCalls = 1
    /\ this.overlay = "none"
    /\ \E a \in PreloadAssets : preload[a] = "failed"

\* C18: when initAfterPreload runs, every preloaded asset has been loaded, and
\* loadPreloadedModels leaves a registry of exactly the four default names
C18_InitWithAllAssets ==
    [][ (variant = "app" /\ this'.initCalls = this.initCalls + 1) =>
            /\ \A a \in PreloadAssets : preload'[a] = "loaded"
            /\ DOMAIN this'.loadedModels = Range(DefaultModels) ]_vars

\* C13: without 'xr' in navigator there is no AR button, no session or click
\* listener, no session, isARMode is false and no AR handler (sessionstart,
\* touch move, controller select, controller drag in a frame) has written a
\* model's transform
C13_NoXRNoAR ==
    xr.navigator = "absent" =>
        /\ ~this.arButton
        /\ ~this.xrListeners
        /\ ~this.clickListener
        /\ this.controllers = << >>
        /\ xr.session = "none"
        /\ ~this.isARMode
        /\ ~xr.moved

\* without WebXR, models are shown and a finger is on the canvas
C13_Witness ==
    /\ xr.navigator = "absent"
    /\ variant \in SessionVariants
    /\ initialized
    /\ this.loadedModels # EmptyMap
    /\ xr.touches > 0

\* C14 as stated: in part_003 the reticle, the hit-test source and the XR
\* reference space are changed only by the frame callback, while a session is
\* active
C14_OnlyInFrame ==
    [][ ( /\ variant = "p003"
          /\ \/ this'.reticle # this.reticle
             \/ xr'.hitTestSource = "current" /\ xr.hitTestSource # "current"
             \/ xr'.referenceSpace # xr.referenceSpace )
        => ( /\ \E hit \in BOOLEAN : Frame(hit)
             /\ xr.session = "active" ) ]_vars

\* C14, amended: the reticle is changed only by the frame callback while
\* isARMode holds and a session is active; the hit-test source and the XR
\* reference space are set only while a session is active, by the
\* then-callbacks of requests the frame callback has made
C14_FrameAndPromises ==
    [][ variant = "p003" =>
          /\ this'.reticle # this.reticle =>
                /\ \E hit \in BOOLEAN : Frame(hit)
                /\ this.isARMode
                /\ xr.session = "active"
          /\ ( \/ xr'.hitTestSource = "current" /\ xr.hitTestSource # "current"
               \/ xr'.referenceSpace # xr.referenceSpace ) =>
                /\ \E p \in Promises : PromiseThen(p)
                /\ xr.hitTestSourceRequested
                /\ xr.session = "active" ]_vars

\* the reticle shows a hit, polled from the source a then-callback has set
C14_Witness ==
    /\ variant = "p003"
    /\ this.reticle.visible
    /\ xr.hitTestSource = "current"
    /\ xr.referenceSpace = "local"

\* C19: in js/app.js and part_003 isARMode is true exactly while an AR session
\* is active
C19_ARModeIsSession ==
    variant \in SessionVariants => (this.isARMode <=> xr.session = "active")

\* a second session runs, after the first one has ended
C19_Witness ==
    /\ variant = "p003"
    /\ this.isARMode
    /\ xr.session = "active"
    /\ xr.hitTestSource = "stale"

\* C20: in part_001 isARMode is true exactly while an AR session is active
C20_ARModeIsSession001 ==
    variant = "p001" => (this.isARMode <=> xr.session = "active")

-----------------------------------------------------------------------------
(* Transforms and the registry operations *)

\* C21: a step that settles a load, issues loads or changes the registry (a
\* load completion, the change handler with its clearExistingModels and
\* updateDragControls) leaves the transform of every object that had one as
\* it was; a load writes the transform of the new model only.
C21_RegistryKeepsTransforms ==
    [][ (requests' # requests \/ nClears' # nClears
           \/ this'.loadedModels # this.loadedModels)
        => /\ \A o \in DOMAIN this.transforms :
                  /\ o \in DOMAIN this'.transforms
                  /\ this'.transforms[o] = this.transforms[o]
           /\ (DOMAIN this'.transforms) \ (DOMAIN this.transforms)
                  \subseteq (RegistryValues' \ RegistryValues) ]_vars

\* a model the user has dragged is in the registry next to a model loaded
\* later on, or was removed from the registry by a clear
C21_Witness ==
    /\ variant \in {"p002", "p003"}
    /\ \E o \in DOMAIN this.transforms :
          /\ this.transforms[o] = "dragged"
          /\ \/ /\ o \in RegistryValues
                /\ \E m \in RegistryValues :
                      m > o /\ this.transforms[m] = LoadTransform(variant)
             \/ nClears > 0 /\ o \notin RegistryValues

\* C22: in js/app.js and part_003 every object that is a value of the
\* registry is in the render scene and is flagged userData.isDraggable.
C22_RegistryInSceneDraggable ==
    variant \in {"app", "p003"}
        => /\ RegistryValues \subseteq this.scene
           /\ RegistryValues \subseteq this.isDraggable

\* js/app.js after loadPreloadedModels, a clear and the completion of an
\* uploaded file's load
C22_Witness ==
    /\ variant = "app"
    /\ this.initCalls > 0
    /\ nClears > 0
    /\ \E o \in RegistryValues : o > 0

-----------------------------------------------------------------------------
(* AR sessions, one after the other *)

\* C23: in part_003, in an AR session whose frames request nothing any more,
\* a hit-test source of this session is there or on its way, and the source
\* the frames poll is never one of an earlier session.
C23_HitTestSourceOfSession ==
    (variant = "p003" /\ this.isARMode /\ xr.session = "active")
        => /\ xr.hitTestSource # "stale"
           /\ xr.hitTestSourceRequested
                 => \/ xr.hitTestSource = "current"
                    \/ xr.promises \cap {"viewer", "hitTestSource"} # {}

\* C24: in js/app.js this.selectedObject is empty whenever no touch is in
\* progress.
C24_SelectionEndsWithTouch ==
    (variant = "app" /\ xr.touches = 0) => this.selectedObject = 0

\* C26: in js/app.js and part_003, once the scene is set up, scene.background
\* is null in exactly the states in which isARMode is true.
C26_BackgroundIsARMode ==
    (variant \in SessionVariants /\ initialized)
        => (this.background = "null" <=> this.isARMode)

\* part_003 in a second AR session: the first one has ended, leaving its
\* hit-test source behind
C26_Witness ==
    /\ variant = "p003"
    /\ xr.session = "active"
    /\ xr.hitTestSource = "stale"
    /\ this.isARMode
    /\ this.background = "null"

\* C25: in part_003 a controller's userData.selectedObject is empty or a
\* model that is in the registry and in the scene.
C25_ControllerSelectsRegistered ==
    variant = "p003"
        => \A c \in DOMAIN this.controllers :
               \/ this.controllers[c] = 0
               \/ /\ this.controllers[c] \in RegistryValues
                  /\ this.controllers[c] \in this.scene

====
